---- MODULE Spec2Model ----
(***************************************************************************)
(* Model of the consumer loop of sz_sqs_consumer.py: one single-threaded   *)
(* orchestrator (the `while True` loop of lines 111-185 and its fatal      *)
(* error handler, lines 189-199), the worker tasks of the thread pool, the *)
(* queue's visibility leases and a wall clock.                             *)
(*                                                                         *)
(* Time is counted in seconds, as time.time() does.  The time a cycle of   *)
(* the loop takes (the timed wait of line 115, the sleeps of lines 162-179 *)
(* and the calls) is accounted for between two cycles: the clock advances  *)
(* in steps of TickSize seconds while the orchestrator is at line 113, or  *)
(* while it waits for the pool in executor.shutdown().  A cycle of the     *)
(* running loop takes less than LONG_RECORD seconds (half the visibility   *)
(* window the messages are received with): the timed wait is 10 seconds    *)
(* and the sleeps are 1 second or what the governor asks for.              *)
(***************************************************************************)
EXTENDS Integers, Sequences, FiniteSets, TLC

\* ---- program constants ----
LONG_RECORD == 300

\* ---- bounds of the model ----
MaxWorkers == 2       \* executor._max_workers (SENZING_THREADS_PER_PROCESS)
MaxMsgs == 3          \* messages the queue hands out in one run
TickSize == 200       \* seconds the clock advances in one Tick
MaxTime == 1000       \* the clock stops advancing at this time

VARIABLES
  pc,            \* position of the orchestrator
  clock,         \* time.time()
  nowTime,       \* line 113 / 192
  logCheckTime,  \* line 80 / 134
  futures,       \* line 109: the dict, in insertion order, of
                 \*   fut -> (msg, start time, times extended)
  done,          \* line 115: futures of `done` not yet iterated by line 117
  sweepIdx,      \* line 142: position of the iteration over futures.items()
  pauseSeconds,  \* line 158
  messages,      \* line 102 / 123
  tasks,         \* the pool: tasks[f] is the task behind future f: the
                 \*   message it was submitted with, whether the body of
                 \*   that message is a record orjson.loads and the key
                 \*   lookups accept ("record") or not ("garbage"), and
                 \*   whether it runs, has returned or has raised
  fetched,       \* number of messages the queue has handed out
  fetchCalls,    \* receive_message calls issued since line 113 last ran
  leaseEnd,      \* the queue: leaseEnd[h] is when message h becomes visible
                 \*   again, NoLease once it is deleted
  deleteCalls,   \* deleteCalls[h]: the delete_message calls issued with
                 \*   receipt handle h, in order
  extendCalls,   \* change_visibility calls issued, in order
  err,           \* the exception that reached line 189
  reported,      \* messages printed as 'Still processing' by line 197
  handlerErr,    \* the exception raised inside the handler of line 189,
                 \*   which reaches line 201
  exitCode,      \* process exit status
  governCalls,   \* governor.govern() calls issued since line 113 last ran
  emptyRun       \* receive_message calls in a row that returned no message,
                 \*   with no sleep and no wait that timed out since the
                 \*   first of them

vars == <<pc, clock, nowTime, logCheckTime, futures, done, sweepIdx,
          pauseSeconds, messages, tasks, fetched, fetchCalls, leaseEnd,
          deleteCalls, extendCalls, err, reported, handlerErr, exitCode,
          governCalls, emptyRun>>

\* ---- helpers ----
Range(s) == {s[i] : i \in DOMAIN s}

\* the entry of the dict `futures` whose key is f
EntryOf(f) == CHOOSE e \in Range(futures) : e.fut = f

\* futures.pop(f): the dict without key f, order of the others kept
Pop_Kept(f) == futures

Pop_Oldest(f) == Tail(futures)

Pop(f) == SelectSeq(futures, LAMBDA e : e.fut # f)

\* fut.done()
IsDone(f) == tasks[f].state # "running"

\* fut.result() raises what the task raised
ResultRaises_Swallowed(f) == FALSE

ResultRaises(f) == tasks[f].state = "raised"

\* the first element of concurrent.futures.wait(futures, ...): the futures
\* that have completed; empty when the timeout ends the wait
Completed_None == {}

Completed == {e.fut : e \in {x \in Range(futures) : IsDone(x.fut)}}

\* governor.govern() results: fully throttled, fetch at once, pause then fetch
PauseChoices == {-1, 0, 1}

NoLease == -1

ShuttingDown == pc \in {"handler", "shutdown", "exited"}

Init ==
  /\ pc = "top"
  /\ clock = 0
  /\ nowTime = 0
  /\ logCheckTime = 0
  /\ futures = <<>>
  /\ done = {}
  /\ sweepIdx = 0
  /\ pauseSeconds = 0
  /\ messages = 0
  /\ tasks = <<>>
  /\ fetched = 0
  /\ fetchCalls = 0
  /\ leaseEnd = <<>>
  /\ deleteCalls = <<>>
  /\ extendCalls = <<>>
  /\ err = "none"
  /\ reported = {}
  /\ handlerErr = "none"
  /\ exitCode = 0
  /\ governCalls = 0
  /\ emptyRun = 0

\* ---- the clock and the worker tasks ----
Tick ==
  /\ pc \in {"top", "shutdown"}
  /\ pc = "top" => (clock + TickSize) - nowTime < LONG_RECORD
  /\ clock < MaxTime
  /\ clock' = clock + TickSize
  /\ UNCHANGED <<pc, nowTime, logCheckTime, futures, done, sweepIdx,
                 pauseSeconds, messages, tasks, fetched, fetchCalls, leaseEnd,
                 deleteCalls, extendCalls, err, reported, handlerErr, exitCode,
          governCalls, emptyRun>>

\* process_msg returns (state "ok") or raises (state "raised"); it raises
\* at line 36 or 39/42 when the body is not a record
TaskFinish(f, r) ==
  /\ tasks[f].state = "running"
  /\ tasks[f].body = "garbage" => r = "raised"
  /\ tasks' = [tasks EXCEPT ![f].state = r]
  /\ UNCHANGED <<pc, clock, nowTime, logCheckTime, futures, done, sweepIdx,
                 pauseSeconds, messages, fetched, fetchCalls, leaseEnd,
                 deleteCalls, extendCalls, err, reported, handlerErr, exitCode,
          governCalls, emptyRun>>

\* ---- the orchestrator ----
\* lines 111-114
LoopTop_SkipGovern ==
  /\ pc = "top"
  /\ nowTime' = clock
  /\ fetchCalls' = 0
  /\ governCalls' = 0
  /\ pc' = IF futures # <<>> THEN "wait" ELSE "fetch"
  /\ UNCHANGED <<clock, logCheckTime, futures, done, sweepIdx, pauseSeconds,
                 messages, tasks, fetched, leaseEnd, deleteCalls, extendCalls,
                 err, reported, handlerErr, exitCode, emptyRun>>

LoopTop ==
  /\ pc = "top"
  /\ nowTime' = clock
  /\ fetchCalls' = 0
  /\ governCalls' = 0
  /\ pc' = IF futures # <<>> THEN "wait" ELSE "govern"
  /\ UNCHANGED <<clock, logCheckTime, futures, done, sweepIdx, pauseSeconds,
                 messages, tasks, fetched, leaseEnd, deleteCalls, extendCalls,
                 err, reported, handlerErr, exitCode, emptyRun>>

\* line 115: the completed futures, or none of them after the wait has
\* blocked for its timeout of 10 seconds
Wait ==
  /\ pc = "wait"
  /\ done' = Completed
  /\ emptyRun' = IF Completed = {} THEN 0 ELSE emptyRun
  /\ pc' = "harvest"
  /\ UNCHANGED <<clock, nowTime, logCheckTime, futures, sweepIdx, pauseSeconds,
                 messages, tasks, fetched, fetchCalls, leaseEnd, deleteCalls,
                 extendCalls, err, reported, handlerErr, exitCode,
                 governCalls>>

\* lines 117-123, one iteration of `for fut in done`; deleteOk is whether
\* sqs.delete_message returns or raises
Harvest_CountFirst(f, deleteOk) ==
  /\ pc = "harvest"
  /\ f \in done
  /\ IF ResultRaises(f)
     THEN /\ err' = "TaskError"
          /\ pc' = "handler"
          /\ UNCHANGED <<futures, deleteCalls, messages, done, leaseEnd>>
     ELSE /\ futures' = Pop(f)
          /\ messages' = messages + 1
          /\ deleteCalls' = [deleteCalls EXCEPT ![EntryOf(f).msg] =
                               Append(@, [fut |-> f, ok |-> deleteOk])]
          /\ IF deleteOk
             THEN /\ leaseEnd' = [leaseEnd EXCEPT ![EntryOf(f).msg] = NoLease]
                  /\ done' = done \ {f}
                  /\ UNCHANGED <<pc, err>>
             ELSE /\ err' = "QueueError"
                  /\ pc' = "handler"
                  /\ UNCHANGED <<done, leaseEnd>>
  /\ UNCHANGED <<clock, nowTime, logCheckTime, sweepIdx, pauseSeconds, tasks,
                 fetched, fetchCalls, extendCalls, reported, handlerErr, exitCode,
                 governCalls, emptyRun>>

Harvest(f, deleteOk) ==
  /\ pc = "harvest"
  /\ f \in done
  /\ IF ResultRaises(f)
     THEN /\ err' = "TaskError"
          /\ pc' = "handler"
          /\ UNCHANGED <<futures, deleteCalls, messages, done, leaseEnd>>
     ELSE /\ futures' = Pop(f)
          /\ deleteCalls' = [deleteCalls EXCEPT ![EntryOf(f).msg] =
                               Append(@, [fut |-> f, ok |-> deleteOk])]
          /\ IF deleteOk
             THEN /\ messages' = messages + 1
                  /\ leaseEnd' = [leaseEnd EXCEPT ![EntryOf(f).msg] = NoLease]
                  /\ done' = done \ {f}
                  /\ UNCHANGED <<pc, err>>
             ELSE /\ err' = "QueueError"
                  /\ pc' = "handler"
                  /\ UNCHANGED <<messages, done, leaseEnd>>
  /\ UNCHANGED <<clock, nowTime, logCheckTime, sweepIdx, pauseSeconds, tasks,
                 fetched, fetchCalls, extendCalls, reported, handlerErr, exitCode,
                 governCalls, emptyRun>>

\* lines 133-140; LONG_RECORD/2 is a float division, so the comparison is
\* stated on the doubled difference
SweepCheck ==
  /\ pc = "harvest"
  /\ done = {}
  /\ IF 2 * (nowTime - logCheckTime) > LONG_RECORD
     THEN /\ logCheckTime' = nowTime
          /\ sweepIdx' = 1
          /\ pc' = "sweep"
     ELSE /\ pc' = "govern"
          /\ UNCHANGED <<logCheckTime, sweepIdx>>
  /\ UNCHANGED <<clock, nowTime, futures, done, pauseSeconds, messages, tasks,
                 fetched, fetchCalls, leaseEnd, deleteCalls, extendCalls, err,
                 reported, handlerErr, exitCode,
                 governCalls, emptyRun>>

\* lines 142-155, one iteration of `for fut, msg in futures.items()`;
\* extendOk is whether sqs.change_visibility returns or raises.  When it
\* returns, line 152 assigns to an item of the tuple futures[fut], which
\* raises TypeError: the tuple is left as it was and the loop is left.
\* (A client object without a change_visibility method makes the call itself
\* raise: that is the case extendOk = FALSE.)  Line 147 decodes the body
\* before the call and raises when it is not JSON.
NeedsExtension_IgnoreDone(e) == nowTime - e.start > LONG_RECORD

NeedsExtension(e) == ~IsDone(e.fut) /\ nowTime - e.start > LONG_RECORD

SweepItem(extendOk) ==
  /\ pc = "sweep"
  /\ IF sweepIdx > Len(futures)
     THEN /\ pc' = "govern"
          /\ sweepIdx' = 0
          /\ UNCHANGED <<extendCalls, leaseEnd, err>>
     ELSE LET e == futures[sweepIdx]
              times_extended == e.ext + 1
              new_time == times_extended * LONG_RECORD * 2
          IN IF NeedsExtension(e) /\ tasks[e.fut].body = "garbage"
             THEN /\ extendOk
                  /\ err' = "DecodeError"
                  /\ pc' = "handler"
                  /\ sweepIdx' = 0
                  /\ UNCHANGED <<extendCalls, leaseEnd>>
             ELSE IF NeedsExtension(e)
             THEN /\ extendCalls' = Append(extendCalls,
                                      [fut |-> e.fut, handle |-> e.msg,
                                       window |-> new_time, at |-> nowTime,
                                       ok |-> extendOk])
                  /\ leaseEnd' = IF extendOk
                                 THEN [leaseEnd EXCEPT ![e.msg] = clock + new_time]
                                 ELSE leaseEnd
                  /\ err' = IF extendOk THEN "TypeError" ELSE "QueueError"
                  /\ pc' = "handler"
                  /\ sweepIdx' = 0
             ELSE /\ sweepIdx' = sweepIdx + 1
                  /\ UNCHANGED <<pc, extendCalls, leaseEnd, err>>
  /\ UNCHANGED <<clock, nowTime, logCheckTime, futures, done, pauseSeconds,
                 messages, tasks, fetched, fetchCalls, deleteCalls, reported,
                 handlerErr, exitCode,
                 governCalls, emptyRun>>

\* lines 158-168
Govern_IgnoreThrottle(p) ==
  /\ pc = "govern"
  /\ pauseSeconds' = p
  /\ governCalls' = governCalls + 1
  /\ emptyRun' = IF Len(futures) >= MaxWorkers \/ p > 0 THEN 0 ELSE emptyRun
  /\ pc' = IF Len(futures) >= MaxWorkers THEN "top" ELSE "fetch"
  /\ UNCHANGED <<clock, nowTime, logCheckTime, futures, done, sweepIdx,
                 messages, tasks, fetched, fetchCalls, leaseEnd, deleteCalls,
                 extendCalls, err, reported, handlerErr, exitCode>>

\* every branch but `pauseSeconds == 0 with spare capacity` sleeps
Govern(p) ==
  /\ pc = "govern"
  /\ pauseSeconds' = p
  /\ governCalls' = governCalls + 1
  /\ emptyRun' = IF p < 0 \/ Len(futures) >= MaxWorkers \/ p > 0
                 THEN 0 ELSE emptyRun
  /\ pc' = IF p < 0 THEN "top"
           ELSE IF Len(futures) >= MaxWorkers THEN "top"
           ELSE "fetch"
  /\ UNCHANGED <<clock, nowTime, logCheckTime, futures, done, sweepIdx,
                 messages, tasks, fetched, fetchCalls, leaseEnd, deleteCalls,
                 extendCalls, err, reported, handlerErr, exitCode>>

\* line 170
HasCapacity_OffByOne == Len(futures) <= MaxWorkers

HasCapacity_Unbounded == TRUE

HasCapacity == Len(futures) < MaxWorkers

\* lines 178-179: after an empty receive, sleep(.1) when nothing is in flight
SleepsWhenIdle_Never == FALSE

SleepsWhenIdle == Len(futures) = 0

\* lines 170-185, one iteration of the fetch loop; r is what
\* sqs.receive_message does: it raises, returns no message, or returns one,
\* whose body is b
FetchLoop(r, b) ==
  /\ pc = "fetch"
  /\ IF HasCapacity
     THEN /\ fetchCalls' = fetchCalls + 1
          /\ r # "message" => b = "record"
          /\ CASE r = "raise" ->
                    /\ err' = "QueueError"
                    /\ pc' = "handler"
                    /\ UNCHANGED <<futures, tasks, fetched, leaseEnd, deleteCalls,
                                   emptyRun>>
               [] r = "empty" ->
                    /\ emptyRun' = IF SleepsWhenIdle THEN 0 ELSE emptyRun + 1
                    /\ pc' = "top"
                    /\ UNCHANGED <<futures, tasks, fetched, leaseEnd, deleteCalls, err>>
               [] r = "message" ->
                    /\ fetched < MaxMsgs
                    /\ fetched' = fetched + 1
                    /\ leaseEnd' = Append(leaseEnd, clock + 2 * LONG_RECORD)
                    /\ deleteCalls' = Append(deleteCalls, <<>>)
                    /\ tasks' = Append(tasks, [msg |-> fetched + 1, body |-> b,
                                            state |-> "running"])
                    /\ futures' = Append(futures,
                                    [fut |-> Len(tasks) + 1, msg |-> fetched + 1,
                                     start |-> clock, ext |-> 0])
                    /\ emptyRun' = 0
                    /\ UNCHANGED <<pc, err>>
     ELSE /\ r = "empty"
          /\ b = "record"
          /\ pc' = "top"
          /\ UNCHANGED <<futures, tasks, fetched, fetchCalls, leaseEnd,
                         deleteCalls, err, emptyRun>>
  /\ UNCHANGED <<clock, nowTime, logCheckTime, done, sweepIdx, pauseSeconds,
                 messages, extendCalls, reported, handlerErr, exitCode,
                 governCalls>>

\* lines 193-194: the positions in futures.items() of the futures that are
\* not done
StillProcessing_None == {}

StillProcessing == {i \in DOMAIN futures : ~IsDone(futures[i].fut)}

\* lines 196-197: the positions at which decoding the body raises
Undecodable == {i \in StillProcessing : tasks[futures[i].fut].body = "garbage"}

\* lines 189-197: the loop over futures.items() prints the futures that are
\* not done, in order, and is left by the exception of the first one whose
\* body does not decode; that exception reaches line 201
Report_Resume ==
  /\ pc = "handler"
  /\ nowTime' = clock
  /\ reported' = {futures[i].msg :
                    i \in {j \in StillProcessing : \A k \in Undecodable : j < k}}
  /\ handlerErr' = IF Undecodable # {} THEN "DecodeError" ELSE "none"
  /\ pc' = "top"
  /\ UNCHANGED <<clock, logCheckTime, futures, done, sweepIdx, pauseSeconds,
                 messages, tasks, fetched, fetchCalls, leaseEnd, deleteCalls,
                 extendCalls, err, exitCode, governCalls, emptyRun>>

Report ==
  /\ pc = "handler"
  /\ nowTime' = clock
  /\ reported' = {futures[i].msg :
                    i \in {j \in StillProcessing : \A k \in Undecodable : j < k}}
  /\ handlerErr' = IF Undecodable # {} THEN "DecodeError" ELSE "none"
  /\ pc' = "shutdown"
  /\ UNCHANGED <<clock, logCheckTime, futures, done, sweepIdx, pauseSeconds,
                 messages, tasks, fetched, fetchCalls, leaseEnd, deleteCalls,
                 extendCalls, err, exitCode,
                 governCalls, emptyRun>>

\* lines 198-199, or lines 107 and 201-204 after an exception in the
\* handler: executor.shutdown() returns once no task is running, then exit(-1)
Shutdown_ExitZero ==
  /\ pc = "shutdown"
  /\ \A f \in DOMAIN tasks : IsDone(f)
  /\ exitCode' = 0
  /\ pc' = "exited"
  /\ UNCHANGED <<clock, nowTime, logCheckTime, futures, done, sweepIdx,
                 pauseSeconds, messages, tasks, fetched, fetchCalls, leaseEnd,
                 deleteCalls, extendCalls, err, reported, handlerErr,
                 governCalls, emptyRun>>

Shutdown ==
  /\ pc = "shutdown"
  /\ \A f \in DOMAIN tasks : IsDone(f)
  /\ exitCode' = -1
  /\ pc' = "exited"
  /\ UNCHANGED <<clock, nowTime, logCheckTime, futures, done, sweepIdx,
                 pauseSeconds, messages, tasks, fetched, fetchCalls, leaseEnd,
                 deleteCalls, extendCalls, err, reported, handlerErr,
                 governCalls, emptyRun>>

Orchestrator ==
  \/ LoopTop
  \/ Wait
  \/ \E f \in done, deleteOk \in BOOLEAN : Harvest(f, deleteOk)
  \/ SweepCheck
  \/ \E extendOk \in BOOLEAN : SweepItem(extendOk)
  \/ \E p \in PauseChoices : Govern(p)
  \/ \E r \in {"raise", "empty", "message"}, b \in {"record", "garbage"} :
       FetchLoop(r, b)
  \/ Report
  \/ Shutdown

Next ==
  \/ Orchestrator
  \/ \E f \in DOMAIN tasks, r \in {"ok", "raised"} : TaskFinish(f, r)
  \/ Tick

Spec == Init /\ [][Next]_vars

\* the orchestrator thread is never starved: every sleep and wait is timed
LiveSpec == Spec /\ WF_vars(Orchestrator)

TypeOK ==
  /\ pc \in {"top", "wait", "harvest", "sweep", "govern", "fetch",
             "handler", "shutdown", "exited"}
  /\ clock \in 0..(MaxTime + TickSize)
  /\ fetched \in 0..MaxMsgs
  /\ Len(tasks) = fetched
  /\ Len(leaseEnd) = fetched
  /\ done \subseteq DOMAIN tasks
  /\ err \in {"none", "TaskError", "QueueError", "TypeError", "DecodeError"}
  /\ handlerErr \in {"none", "DecodeError"}

\* ---- properties ----

\* messages whose future was popped from `futures` by line 121
Harvested == {h \in DOMAIN deleteCalls : deleteCalls[h] # <<>>}

\* C1: the number of in-flight tasks (messages fetched and submitted but not
\* yet harvested) never exceeds the worker count; a message beyond the first
\* MaxWorkers is fetched only after enough earlier ones were harvested.
C1_InFlightBounded ==
  /\ Len(futures) <= MaxWorkers
  /\ fetched - Cardinality(Harvested) <= MaxWorkers

C1_Witness ==
  /\ fetched = MaxWorkers + 1
  /\ Len(futures) = MaxWorkers
  /\ Cardinality(Harvested) = 1

\* C2: every delete call was issued for a future whose task completed without
\* raising, with the receipt handle of the message that task was submitted
\* with; no message whose task raised or still runs has a delete call.
C2_DeleteOnlyOwnSuccess ==
  /\ \A h \in DOMAIN deleteCalls : \A i \in DOMAIN deleteCalls[h] :
       /\ tasks[deleteCalls[h][i].fut].state = "ok"
       /\ tasks[deleteCalls[h][i].fut].msg = h
  /\ \A f \in DOMAIN tasks :
       tasks[f].state # "ok" => deleteCalls[tasks[f].msg] = <<>>

C2_Witness ==
  /\ \E h \in DOMAIN deleteCalls : deleteCalls[h] # <<>>
  /\ \E f \in DOMAIN tasks : tasks[f].state = "raised"
  /\ \E f \in DOMAIN tasks : tasks[f].state = "running"
  /\ pc = "handler"

\* C3 (as claimed): every message whose task completed without raising is
\* eventually deleted; in a run that has ended, every such message has a
\* delete call.
C3_Original_EverySuccessDeleted ==
  pc = "exited" =>
    \A f \in DOMAIN tasks : tasks[f].state = "ok" => deleteCalls[tasks[f].msg] # <<>>

\* C3 (amended): every message whose task completed without raising
\* eventually has a delete call issued for it, unless the orchestrator
\* enters its fatal-error path first.
C3_DeletedUnlessShutdown ==
  \A f \in 1..MaxMsgs :
    (f \in DOMAIN tasks /\ tasks[f].state = "ok")
      ~> (ShuttingDown \/ (f \in DOMAIN tasks /\ deleteCalls[tasks[f].msg] # <<>>))

C3_Witness ==
  /\ ~ShuttingDown
  /\ \E f \in DOMAIN tasks : tasks[f].state = "ok" /\ deleteCalls[tasks[f].msg] # <<>>
  /\ \E f \in DOMAIN tasks : tasks[f].state = "ok" /\ deleteCalls[tasks[f].msg] = <<>>

\* C4: at most one delete call is ever issued for a message.
C4_DeleteAtMostOnce ==
  \A h \in DOMAIN deleteCalls : Len(deleteCalls[h]) <= 1

C4_Witness ==
  /\ pc = "wait"
  /\ Cardinality(Harvested) = 2
  /\ futures # <<>>

\* C5 (as claimed): with the loop cycling faster than half the base
\* visibility window (see Tick), and no processing, decode or queue error having
\* ended the loop, the lease deadline of every task that is still running
\* lies in the future.
C5_Original_LeaseNeverExpires ==
  err \notin {"TaskError", "QueueError", "DecodeError"} =>
    \A e \in Range(futures) : ~IsDone(e.fut) => leaseEnd[e.msg] > clock

\* successful change_visibility calls issued for future f
ExtensionsOf(f) == {i \in DOMAIN extendCalls : extendCalls[i].fut = f /\ extendCalls[i].ok}

\* C6 (as claimed): the recorded extension count of an in-flight task is the
\* number of sweeps that extended its lease.
C6_Original_ExtensionCounted ==
  \A e \in Range(futures) : e.ext = Cardinality(ExtensionsOf(e.fut))

\* the sweep of the cycle that began at nowTime is over
SweepOver == logCheckTime = nowTime /\ pc # "sweep"

\* C7 (as claimed): once a sweep is over, and no queue call failed, every
\* in-flight task that is still running and was over the threshold has had
\* exactly one extend call in that sweep, for its own receipt handle and with
\* window (extension_count + 1) * threshold * 2; tasks at or under the
\* threshold have had none.
C7_Original_SweepExtendsAll ==
  (SweepOver /\ err \notin {"QueueError", "DecodeError"}) =>
    \A e \in Range(futures) :
      LET calls == {i \in DOMAIN extendCalls :
                      extendCalls[i].fut = e.fut /\ extendCalls[i].at = nowTime}
      IN IF nowTime - e.start > LONG_RECORD
         THEN ~IsDone(e.fut) =>
                /\ Cardinality(calls) = 1
                /\ \A i \in calls :
                     /\ extendCalls[i].handle = e.msg
                     /\ extendCalls[i].window = (e.ext + 1) * LONG_RECORD * 2
         ELSE calls = {}

\* C8 (as claimed): when no processing call has raised and no queue
\* operation has failed, the orchestrator is not shutting down.
C8_Original_ShutdownOnlyOnError ==
  ((\A f \in DOMAIN tasks : tasks[f].state # "raised" /\ tasks[f].body = "record")
     /\ err # "QueueError")
    => ~ShuttingDown

\* C9: a receive call or a task submission happens only when the throttle
\* decision of the cycle is not negative.
C9_NoFetchWhenThrottled ==
  [][(fetchCalls' > fetchCalls \/ Len(tasks') > Len(tasks)) => pauseSeconds >= 0]_vars

C9_Witness ==
  /\ pc = "top"
  /\ pauseSeconds < 0
  /\ fetchCalls = 0
  /\ Len(futures) < MaxWorkers
  /\ fetched < MaxMsgs
  /\ fetched > 0

\* C10: a receive call is issued only in a state where the number of
\* in-flight tasks is strictly below the worker count.
C10_NoFetchAtCapacity ==
  [][fetchCalls' > fetchCalls => Len(futures) < MaxWorkers]_vars

C10_Witness ==
  /\ pc = "top"
  /\ Len(futures) = MaxWorkers
  /\ pauseSeconds > 0
  /\ fetchCalls = 0
  /\ fetched < MaxMsgs

\* C11: once a task whose result raises has been harvested, the orchestrator
\* is in its fatal-error path and stays there, and no further receive,
\* submit, delete or extend-visibility call is issued.
C11_FailureIsFatal ==
  [][/\ err' = "TaskError" => ShuttingDown'
     /\ err = "TaskError" =>
          /\ ShuttingDown'
          /\ fetchCalls' = fetchCalls
          /\ Len(tasks') = Len(tasks)
          /\ futures' = futures
          /\ deleteCalls' = deleteCalls
          /\ extendCalls' = extendCalls]_vars

C11_Witness ==
  /\ err = "TaskError"
  /\ pc = "exited"
  /\ fetched < MaxMsgs
  /\ Len(futures) = MaxWorkers
  /\ \E f \in DOMAIN tasks : tasks[f].state = "raised" /\ deleteCalls[tasks[f].msg] = <<>>

\* the handler's report has been printed
ReportDone == pc \in {"shutdown", "exited"}

\* C12 (as claimed): the report lists every message still in the registry,
\* other than those of tasks that raised.
C12_Original_ReportListsAllInFlight ==
  (ReportDone /\ handlerErr = "none") =>
    \A e \in Range(futures) : tasks[e.fut].state # "raised" => e.msg \in reported

\* C12 (amended): the report lists only messages of the registry; unless
\* decoding a body ended the report early, it lists every message whose task
\* is still running; it lists none of the futures that wait() had returned as
\* completed and that were not harvested.
C12_ReportListsStillRunning ==
  ReportDone =>
    /\ reported \subseteq {e.msg : e \in Range(futures)}
    /\ handlerErr = "none" =>
         \A e \in Range(futures) : tasks[e.fut].state = "running" => e.msg \in reported
    /\ \A e \in Range(futures) : e.fut \in done => e.msg \notin reported

C12_Witness ==
  /\ pc = "shutdown"
  /\ handlerErr = "none"
  /\ \E e \in Range(futures) : tasks[e.fut].state = "running" /\ e.msg \in reported
  /\ \E e \in Range(futures) : tasks[e.fut].state = "ok" /\ e.msg \notin reported

\* C13 (as claimed): after any fatal error the process eventually exits with
\* a non-zero status.
C13_Original_AlwaysExits ==
  (err # "none") ~> (pc = "exited" /\ exitCode # 0)

\* C13 (amended): after any fatal error the process eventually exits with a
\* non-zero status, provided every task eventually returns or raises.
C13_ExitsOnceTasksEnd ==
  <>[](\A f \in DOMAIN tasks : tasks[f].state # "running")
    => ((err # "none") ~> (pc = "exited" /\ exitCode # 0))

C13_Witness ==
  /\ pc = "exited"
  /\ exitCode # 0
  /\ err = "QueueError"
  /\ reported # {}

\* delete_message calls that returned
NumDeleted ==
  Cardinality({h \in DOMAIN deleteCalls :
                 \E i \in DOMAIN deleteCalls[h] : deleteCalls[h][i].ok})

\* C14: the counter never decreases, grows by one at a time and only in a
\* step that harvests a task that returned and whose delete call succeeded,
\* and equals the number of messages deleted so far.
C14_CounterCountsDeletes ==
  [][/\ messages' \in {messages, messages + 1}
     /\ messages' = NumDeleted'
     /\ messages' = messages + 1 =>
          \E f \in done : tasks[f].state = "ok" /\ f \notin {e.fut : e \in Range(futures')}]_vars

C14_Witness ==
  /\ messages = 1
  /\ Cardinality(Harvested) = 2
  /\ err = "QueueError"

\* a receive_message call that returns no message
EmptyFetch ==
  /\ fetchCalls' = fetchCalls + 1
  /\ fetched' = fetched
  /\ err' = err

\* C15: an empty fetch is preceded by at most MaxWorkers empty fetches in a
\* row that had no sleep and no timed-out wait between them.
C15_NoSpinOnEmptyQueue ==
  [][EmptyFetch => emptyRun <= MaxWorkers]_vars

C15_Witness ==
  /\ pc = "fetch"
  /\ fetchCalls = 0
  /\ emptyRun >= 1
  /\ messages >= 1

\* C16: the registry holds exactly the messages fetched and not yet
\* harvested, each once, each with exactly one task, submitted with it.
C16_RegistryIsFetchedNotHarvested ==
  /\ {e.msg : e \in Range(futures)} = (1..fetched) \ Harvested
  /\ Len(tasks) = fetched
  /\ \A f, g \in DOMAIN tasks : tasks[f].msg = tasks[g].msg => f = g
  /\ \A i, j \in DOMAIN futures : futures[i].msg = futures[j].msg => i = j
  /\ \A e \in Range(futures) : tasks[e.fut].msg = e.msg

C16_Witness ==
  /\ fetched = MaxMsgs
  /\ Cardinality(Harvested) = 1
  /\ Len(futures) = MaxWorkers

\* C17 (as claimed): the receive calls of a cycle do not outnumber the
\* throttle calls of that cycle.
C17_Original_GovernBeforeEachFetch ==
  fetchCalls <= governCalls

\* C17 (amended): the throttle adapter is asked once per cycle, before the
\* fetch loop; that one decision gates up to MaxWorkers receive calls.
C17_GovernOncePerCycle ==
  /\ governCalls <= 1
  /\ fetchCalls > 0 => governCalls = 1
  /\ fetchCalls <= MaxWorkers

C17_Witness ==
  /\ governCalls = 1
  /\ fetchCalls = MaxWorkers
  /\ Len(futures) = MaxWorkers

\* C18 (as claimed): with the throttle negative to the end, no task raising,
\* every body decoding and no queue call failing, a run that has ended has
\* deleted the message of every task that returned.
C18_Original_HarvestUnderThrottle ==
  (/\ pc = "exited"
   /\ pauseSeconds < 0
   /\ err \notin {"TaskError", "QueueError", "DecodeError"}
   /\ \A f \in DOMAIN tasks : tasks[f].state = "ok")
    => \A f \in DOMAIN tasks : deleteCalls[tasks[f].msg] # <<>>

\* C19: an extend-visibility call is issued only for a message that is in
\* the registry, whose task is running and for which no delete call was
\* issued.
C19_ExtendOnlyInFlight ==
  [][extendCalls' # extendCalls =>
       LET c == extendCalls'[Len(extendCalls')]
       IN /\ \E e \in Range(futures) : e.fut = c.fut /\ e.msg = c.handle
          /\ tasks[c.fut].state = "running"
          /\ deleteCalls[c.handle] = <<>>]_vars

C19_Witness ==
  /\ extendCalls # <<>>
  /\ Harvested # {}
  /\ \E e \in Range(futures) : tasks[e.fut].state = "ok"
====
